---- MODULE Spec2Model ----
(***************************************************************************)
(* study-buddy: the AssistantManager of src/src/AssistantManager.py (and   *)
(* the older one of src/src/main.py).  Two parts carry state:              *)
(*   - the file metadata store: the metadata file on disk, each manager's  *)
(*     in-memory file_metadata, and the files of the remote vector store;  *)
(*   - the run poller: wait_for_run_completion polling a remote run.       *)
(* The remote service is an opaque collaborator: its answers (the order of *)
(* a listing, a call that raises, the status a run moves to) are           *)
(* nondeterministic choices.                                               *)
(***************************************************************************)
EXTENDS Integers, Sequences, FiniteSets, TLC

VARIABLES
    disk,         \* content of the metadata file (metadata_file)
    mgr,          \* mgr[m]: the fields of manager m (self.*)
    uploaded,     \* remote files: uploaded[i] is the local path file id i was uploaded from
    vsFiles,      \* remote vector store: the ids of the files it holds
    lastCall,     \* the last constructor or store call: who called what, and what it returned
    runs,         \* remote runs: runs[r] is the status of run id r
    threadMsgs,   \* remote thread: its messages, newest first
    pc,           \* pc[m]: position of m in wait_for_run_completion
    sleep_interval, \* sleep_interval[m]: the argument of the current wait
    log,          \* log[m]: the last MaxLog effects of the current wait
    raised,       \* raised[m]: the exception the except branch of the current wait caught ("" for none)
    response,     \* response[m]: the local variable response of the wait
    waitRet,      \* waitRet[m]: what the wait returned to its caller
    message,      \* message[m]: the message object m's caller passes to format_message
    formatted,    \* formatted[m]: what the last format_message of m's caller returned
    creates       \* creates[m][k]: the remote create requests of m for a resource of kind k

vars == <<disk, mgr, uploaded, vsFiles, lastCall, runs, threadMsgs, pc,
          sleep_interval, log, raised, response, waitRet, message, formatted,
          creates>>

storeVars == <<disk, uploaded, vsFiles, lastCall>>
remoteRunVars == <<runs, threadMsgs>>
waitVars == <<pc, sleep_interval, log, raised, response, waitRet>>
fmtVars == <<message, formatted>>

(***************************************************************************)
(* Bounds of the model.                                                    *)
(***************************************************************************)
MaxFiles == 2      \* remote file ids ever assigned
MaxBatch == 2      \* length of a file_paths argument
MaxRuns == 2       \* runs ever created
MaxUserMsgs == 1   \* user messages ever added to the thread
MaxLog == 4        \* effects of a wait that are remembered
MaxText == 3       \* length of the text of a message given to format_message
MaxAnnotations == 2 \* annotations of a message given to format_message

Managers == {"m1", "m2"}
Paths == {"a.pdf", "b.pdf"}
None == "None"

Min(a, b) == IF a < b THEN a ELSE b

\* Python values: None, or a str (a sequence of characters).
PyNone == [kind |-> "None", value |-> <<>>]
PyStr(s) == [kind |-> "str", value |-> s]

(***************************************************************************)
(* Class attributes: the ids of the existing remote resources.             *)
(***************************************************************************)
ASSISTANT_ID == "asst_ICnLjgfneeQFYrRmSckG2MDL"
THREAD_ID == "thread_IMy8rg00uxj40kuS0L9RApbN"
VS_ID == "vs_fhVKvG244ieSCE6NIcjqcyYd"

\* A second collection id, of a vector store used before VS_ID was configured:
\* the document is keyed by collection id.
OtherVS == "vs_other"
VsIds == {VS_ID, OtherVS}

(***************************************************************************)
(* The metadata document: a dict from collection id to a list of entries   *)
(* {"file_path", "file_id"}.  keys is the set of keys of the dict and      *)
(* at[k] the list under key k (<<>> for a key that is absent).             *)
(***************************************************************************)
Entry(p, i) == [file_path |-> p, file_id |-> i]

EmptyDoc == [keys |-> {}, at |-> [k \in VsIds |-> <<>>]]

OldDoc == [keys |-> {OtherVS},
           at |-> [k \in VsIds |-> IF k = OtherVS
                                   THEN <<Entry("a.pdf", 0)>>
                                   ELSE <<>>]]

\* data.get(key, [])
DocGet(d, k) == IF k \in d.keys THEN d.at[k] ELSE <<>>

(***************************************************************************)
(* The metadata file: missing, of size 0, text that is not JSON, bytes     *)
(* that do not decode as text, or a JSON document.                         *)
(***************************************************************************)
FileMissing == [kind |-> "missing", doc |-> EmptyDoc]
FileEmpty == [kind |-> "empty", doc |-> EmptyDoc]
FileCorrupt == [kind |-> "corrupt", doc |-> EmptyDoc]
FileUndecodable == [kind |-> "undecodable", doc |-> EmptyDoc]
DocFile(d) == [kind |-> "doc", doc |-> d]

InitialFiles == {FileMissing, FileEmpty, FileCorrupt, FileUndecodable,
                 DocFile(EmptyDoc), DocFile(OldDoc)}

\* A save with writer protection: the entries the file holds and md lacks are
\* kept (md's own entries follow them).
save_merging(md) ==
    IF disk.kind # "doc" THEN DocFile(md)
    ELSE LET d == disk.doc
             extra(k) == SelectSeq(md.at[k],
                            LAMBDA e : \A i \in DOMAIN d.at[k] : d.at[k][i] # e)
         IN DocFile([keys |-> d.keys \cup md.keys,
                     at |-> [k \in VsIds |-> d.at[k] \o extra(k)]])

\* json.dump(self.file_metadata, f) on a file opened with "w"
save_file_metadata(md) == DocFile(md)

\* load_file_metadata: the value returned, or the exception that leaves it.
\* Only json.JSONDecodeError is caught; bytes that do not decode raise
\* UnicodeDecodeError out of json.load.
load_file_metadata(f) ==
    IF f.kind \in {"doc", "corrupt", "undecodable"}
    THEN \* the file exists and its size is positive
         CASE f.kind = "doc" -> [raises |-> FALSE, value |-> f.doc]
           [] f.kind = "corrupt" -> [raises |-> FALSE, value |-> EmptyDoc]
           [] f.kind = "undecodable" -> [raises |-> TRUE, value |-> EmptyDoc]
    ELSE [raises |-> FALSE, value |-> EmptyDoc]

(***************************************************************************)
(* The managers.                                                           *)
(***************************************************************************)
NoManager == [constructed |-> FALSE,
              assistant |-> None, thread |-> None, vector_store |-> None,
              assistant_id |-> ASSISTANT_ID, thread_id |-> THREAD_ID,
              vector_store_id |-> VS_ID,
              run |-> 0, file_metadata |-> EmptyDoc]

\* The class attributes a deployment may be configured with: the ids of the
\* source, or "" for a resource that does not exist yet.
ClassAttributes ==
    [assistant_id : {ASSISTANT_ID, ""}, thread_id : {THREAD_ID, ""},
     vector_store_id : {VS_ID, ""}]

\* A manager not constructed yet, of a class with the attributes c: the ids
\* read through self are the class attributes.
ManagerOfClass(c) ==
    [NoManager EXCEPT !.assistant_id = c.assistant_id,
                      !.thread_id = c.thread_id,
                      !.vector_store_id = c.vector_store_id]

\* The kinds of remote resources a manager creates.
Kinds == {"assistant", "thread", "vector_store"}

\* A call by manager m of operation op, returning kind ("None", "list" with
\* paths, or "raised"); for an upload, paths is the file_paths argument.
Call(m, op, kind, paths) == [m |-> m, op |-> op, kind |-> kind, paths |-> paths]

NoCall == Call("", "none", "None", <<>>)

\* The message object of a caller that holds none yet.
NoMessage == [role |-> "assistant", value |-> <<>>, annotations |-> <<>>]

\* The state before any manager is constructed, but for the class
\* attributes and the message objects the callers hold.
InitRest ==
    /\ disk \in InitialFiles
    /\ uploaded = <<>>
    /\ vsFiles = {}
    /\ lastCall = NoCall
    /\ runs = <<>>
    /\ threadMsgs = <<>>
    /\ pc = [m \in Managers |-> "idle"]
    /\ sleep_interval = [m \in Managers |-> 0]
    /\ log = [m \in Managers |-> <<>>]
    /\ raised = [m \in Managers |-> ""]
    /\ response = [m \in Managers |-> PyNone]
    /\ waitRet = [m \in Managers |-> PyNone]
    /\ formatted = [m \in Managers |-> PyNone]
    /\ creates = [m \in Managers |-> [k \in Kinds |-> 0]]

Init ==
    /\ InitRest
    /\ mgr = [m \in Managers |-> NoManager]
    /\ message = [m \in Managers |-> NoMessage]

\* __init__: load the metadata, then retrieve the assistant, the thread and
\* the vector store the class attributes name.
Construct(m) ==
    /\ ~mgr[m].constructed
    /\ LET l == load_file_metadata(disk) IN
         IF l.raises
         THEN /\ lastCall' = Call(m, "init", "raised", <<>>)
              /\ UNCHANGED mgr
         ELSE /\ lastCall' = Call(m, "init", "None", <<>>)
              /\ mgr' = [mgr EXCEPT ![m].constructed = TRUE,
                                    ![m].file_metadata = l.value,
                                    ![m].assistant =
                                        IF mgr[m].assistant_id # ""
                                        THEN mgr[m].assistant_id ELSE None,
                                    ![m].thread =
                                        IF mgr[m].thread_id # ""
                                        THEN mgr[m].thread_id ELSE None,
                                    ![m].vector_store =
                                        IF mgr[m].vector_store_id # ""
                                        THEN mgr[m].vector_store_id ELSE None]
    /\ UNCHANGED <<fmtVars, creates, disk, uploaded, vsFiles, remoteRunVars, waitVars>>

(***************************************************************************)
(* The file metadata store.                                                *)
(***************************************************************************)
Injective(s) == \A i, j \in DOMAIN s : i # j => s[i] # s[j]

\* The file_paths arguments: lists of distinct local paths.
FilePathArgs ==
    {s \in UNION {[1..n -> Paths] : n \in 1..MaxBatch} : Injective(s)}

\* The orders in which the remote service may list the files of a set.
Listings(S) == {s \in [1..Cardinality(S) -> S] : Injective(s)}

\* zip(file_paths, file_ids) as entries
ZipEntries(file_paths, file_ids) ==
    [i \in 1..Min(Len(file_paths), Len(file_ids)) |->
        Entry(file_paths[i], file_ids[i])]

\* A loop body that rewrites the list of the key instead of appending to it.
ReplaceEntries(md, vsid, new) ==
    IF new = <<>> THEN md
    ELSE [keys |-> md.keys \cup {vsid},
          at |-> [md.at EXCEPT ![vsid] = new]]

\* The loop body of upload_files_to_vector_store over the zipped pairs:
\* create the key when absent, append each entry to its list.
AppendEntries(md, vsid, new) ==
    IF new = <<>> THEN md
    ELSE [keys |-> md.keys \cup {vsid},
          at |-> [md.at EXCEPT ![vsid] = md.at[vsid] \o new]]

\* The elements of s at the positions in S, in order.
RECURSIVE Pick(_, _, _)
Pick(s, i, S) ==
    IF i > Len(s) THEN <<>>
    ELSE (IF i \in S THEN <<s[i]>> ELSE <<>>) \o Pick(s, i + 1, S)

\* upload_files_to_vector_store(file_paths): upload_and_poll uploads the
\* batch, of which the files at the positions ok succeed (the batch reports
\* the others in file_counts) and get fresh remote ids; the ids of the whole
\* vector store are then listed and zipped with file_paths.  Every upload of
\* the model uploads a file, so that MaxFiles bounds the uploads.
upload_files_to_vector_store(m, file_paths) ==
    /\ mgr[m].constructed
    /\ mgr[m].vector_store_id # ""
    /\ Len(uploaded) + Len(file_paths) <= MaxFiles
    /\ \E ok \in (SUBSET (1..Len(file_paths))) \ {{}} :
        LET done == Pick(file_paths, 1, ok)
            files == vsFiles \cup {Len(uploaded) + i : i \in 1..Len(done)}
        IN
        /\ uploaded' = uploaded \o done
        /\ vsFiles' = files
        /\ \E file_ids \in Listings(files) :
             LET md == AppendEntries(mgr[m].file_metadata,
                                     mgr[m].vector_store_id,
                                     ZipEntries(file_paths, file_ids))
             IN /\ mgr' = [mgr EXCEPT ![m].file_metadata = md]
                /\ disk' = save_file_metadata(md)
    /\ lastCall' = Call(m, "upload", "None", file_paths)
    /\ UNCHANGED <<fmtVars, creates, remoteRunVars, waitVars>>

\* upload_files_to_vector_store when listing the vector store raises: the
\* files are uploaded, the exception leaves the method before the metadata
\* is touched.
upload_listing_raises(m, file_paths) ==
    /\ mgr[m].constructed
    /\ mgr[m].vector_store_id # ""
    /\ Len(uploaded) + Len(file_paths) <= MaxFiles
    /\ \E ok \in (SUBSET (1..Len(file_paths))) \ {{}} :
        LET done == Pick(file_paths, 1, ok) IN
        /\ uploaded' = uploaded \o done
        /\ vsFiles' = vsFiles \cup {Len(uploaded) + i : i \in 1..Len(done)}
    /\ lastCall' = Call(m, "upload", "raised", file_paths)
    /\ UNCHANGED <<fmtVars, creates, disk, mgr, remoteRunVars, waitVars>>

\* A clear that leaves the metadata file as it is.
NotCleared == disk

\* The metadata file after "Clear metadata file": json.dump({}, f)
ClearedFile == DocFile(EmptyDoc)

\* The deletion loop of clear_vector_store from entry i on.  fail is the
\* set of positions whose remote deletion raises for a transient reason; the
\* deletion of a file the vector store does not hold raises too.  The local
\* logger is bound by the first successful deletion only, so a failure
\* before it raises UnboundLocalError out of the loop (aborted).
RECURSIVE DeleteLoop(_, _, _, _, _, _)
DeleteLoop(entries, i, fail, files, deleted, loggerBound) ==
    IF i > Len(entries)
    THEN [aborted |-> FALSE, files |-> files, deleted |-> deleted,
          loggerBound |-> loggerBound]
    ELSE LET e == entries[i] IN
         IF e.file_id \in files /\ i \notin fail
         THEN DeleteLoop(entries, i + 1, fail, files \ {e.file_id},
                         Append(deleted, e.file_path), TRUE)
         ELSE IF loggerBound
              THEN DeleteLoop(entries, i + 1, fail, files, deleted, TRUE)
              ELSE [aborted |-> TRUE, files |-> files, deleted |-> deleted,
                    loggerBound |-> FALSE]

\* clear_vector_store: read the entries of the current vector store id from
\* the metadata file, delete each file remotely, overwrite the file with {}.
clear_vector_store(m) ==
    /\ mgr[m].constructed
    /\ IF disk.kind # "doc"
       THEN \* open or json.load raises: outer except, returns None
            /\ lastCall' = Call(m, "clear", "None", <<>>)
            /\ UNCHANGED <<disk, vsFiles>>
       ELSE LET entries == DocGet(disk.doc, mgr[m].vector_store_id) IN
            \E fail \in SUBSET (1..Len(entries)) :
              LET r == DeleteLoop(entries, 1, fail, vsFiles, <<>>, FALSE) IN
                /\ vsFiles' = r.files
                /\ IF r.aborted
                   THEN /\ disk' = disk
                        /\ lastCall' = Call(m, "clear", "None", <<>>)
                   ELSE /\ disk' = ClearedFile
                        /\ IF r.loggerBound
                           THEN lastCall' = Call(m, "clear", "list", r.deleted)
                           ELSE \* logger.info after the overwrite raises
                                lastCall' = Call(m, "clear", "None", <<>>)
    /\ UNCHANGED <<fmtVars, creates, mgr, uploaded, remoteRunVars, waitVars>>

NextStore ==
    \/ \E m \in Managers : Construct(m)
    \/ \E m \in Managers, fp \in FilePathArgs : upload_files_to_vector_store(m, fp)
    \/ \E m \in Managers, fp \in FilePathArgs : upload_listing_raises(m, fp)
    \/ \E m \in Managers : clear_vector_store(m)

SpecStore == Init /\ [][NextStore]_vars

(***************************************************************************)
(* Messages and format_message.  A text is a sequence of characters.       *)
(***************************************************************************)
DigitOf == [d \in 0..9 |-> <<"0", "1", "2", "3", "4", "5", "6", "7", "8", "9">>[d + 1]]

\* str(n) for n >= 0
RECURSIVE Str(_)
Str(n) == IF n < 10 THEN <<DigitOf[n]>>
          ELSE Str(n \div 10) \o <<DigitOf[n % 10]>>

\* A marker numbered from 0, as format_response of main.py writes it.
MarkerFromZero(index) == <<" ", "[">> \o Str(index) \o <<"]">>

\* f" [{index + 1}]"
Marker(index) == <<" ", "[">> \o Str(index + 1) \o <<"]">>

StartsWith(s, i, old) ==
    /\ i + Len(old) - 1 <= Len(s)
    /\ \A k \in 1..Len(old) : s[i + k - 1] = old[k]

RECURSIVE ReplaceFrom(_, _, _, _)
ReplaceFrom(s, i, old, new) ==
    IF i > Len(s) THEN <<>>
    ELSE IF StartsWith(s, i, old)
         THEN new \o ReplaceFrom(s, i + Len(old), old, new)
         ELSE <<s[i]>> \o ReplaceFrom(s, i + 1, old, new)

RECURSIVE Interleave(_, _, _)
Interleave(s, i, new) ==
    IF i > Len(s) THEN new
    ELSE new \o <<s[i]>> \o Interleave(s, i + 1, new)

\* str.replace(old, new): every non-overlapping occurrence, left to right;
\* an empty old matches before every character and at the end.
str_replace(s, old, new) ==
    IF old = <<>> THEN Interleave(s, 1, new)
    ELSE ReplaceFrom(s, 1, old, new)

\* The loop of format_message from the annotation at 0-based position index.
RECURSIVE FormatFrom(_, _, _)
FormatFrom(value, annotations, index) ==
    IF index >= Len(annotations) THEN value
    ELSE FormatFrom(str_replace(value, annotations[index + 1].text, Marker(index)),
                    annotations, index + 1)

\* format_message(message): the text returned.
format_message(msg) == FormatFrom(msg.value, msg.annotations, 0)

\* The number of client.files.retrieve calls format_message makes.
CitationCount(msg) ==
    Cardinality({i \in 1..Len(msg.annotations) :
                    msg.annotations[i].file_citation})

Annotation(t, c) == [text |-> t, file_citation |-> c]
Message(r, v, a) == [role |-> r, value |-> v, annotations |-> a]

\* The replies the assistant may give.
Replies ==
    { Message("assistant", <<"h", "i">>, <<>>),
      Message("assistant", <<"x", "A", "y", "A">>, <<Annotation(<<"A">>, TRUE)>>),
      Message("assistant", <<"A", "x", "B">>,
              <<Annotation(<<"A">>, TRUE), Annotation(<<"B">>, FALSE)>>) }

UserMessage == Message("user", <<"q">>, <<>>)

(***************************************************************************)
(* The remote runs.                                                        *)
(***************************************************************************)
Terminal == {"completed", "failed", "cancelled", "expired"}
Failure == Terminal \ {"completed"}

\* run.completed_at is set exactly when the run completed.
completed_at(status) == status = "completed"

Idle(m) == pc[m] \in {"idle", "returned"}

UserMsgCount == Cardinality({i \in 1..Len(threadMsgs) : threadMsgs[i].role = "user"})

\* The remote service starts a queued run.
RemoteRunStarts(r) ==
    /\ runs[r] = "queued"
    /\ runs' = [runs EXCEPT ![r] = "in_progress"]
    /\ UNCHANGED <<fmtVars, creates, mgr, storeVars, threadMsgs, waitVars>>

\* A run in progress completes, with the assistant's reply as the newest
\* message of the thread.
RemoteRunCompletes(r, reply) ==
    /\ runs[r] = "in_progress"
    /\ runs' = [runs EXCEPT ![r] = "completed"]
    /\ threadMsgs' = <<reply>> \o threadMsgs
    /\ UNCHANGED <<fmtVars, creates, mgr, storeVars, waitVars>>

\* A run that is not over ends without completing.
RemoteRunFails(r, status) ==
    /\ runs[r] \in {"queued", "in_progress"}
    /\ runs' = [runs EXCEPT ![r] = status]
    /\ UNCHANGED <<fmtVars, creates, mgr, storeVars, threadMsgs, waitVars>>

\* The messages of the thread are deleted through the remote API.
RemoteThreadEmptied ==
    /\ threadMsgs # <<>>
    /\ threadMsgs' = <<>>
    /\ UNCHANGED <<fmtVars, creates, mgr, storeVars, runs, waitVars>>

\* add_message_to_thread("user", content)
add_message_to_thread(m) ==
    /\ mgr[m].constructed /\ Idle(m)
    /\ UserMsgCount < MaxUserMsgs
    /\ threadMsgs' = IF mgr[m].thread # None
                     THEN <<UserMessage>> \o threadMsgs
                     ELSE threadMsgs
    /\ UNCHANGED <<fmtVars, creates, mgr, storeVars, runs, waitVars>>

\* A run_assistant that asks for the assistant only.
HasAssistant(m) == mgr[m].assistant # None

\* if self.assistant and self.thread
CanRun(m) == mgr[m].assistant # None /\ mgr[m].thread # None

\* run_assistant of AssistantManager.py: runs.create_and_poll returns the run
\* once it is over; without an assistant or a thread nothing is done.
run_assistant(m, status, reply) ==
    /\ mgr[m].constructed /\ Idle(m)
    /\ Len(runs) < MaxRuns
    /\ IF CanRun(m)
       THEN /\ runs' = Append(runs, status)
            /\ threadMsgs' = IF status = "completed" THEN <<reply>> \o threadMsgs
                             ELSE threadMsgs
            /\ mgr' = [mgr EXCEPT ![m].run = Len(runs) + 1]
       ELSE UNCHANGED <<runs, threadMsgs, mgr>>
    /\ UNCHANGED <<fmtVars, creates, storeVars, waitVars>>

\* run_assistant of main.py: runs.create returns the queued run.
main_run_assistant(m) ==
    /\ mgr[m].constructed /\ Idle(m)
    /\ mgr[m].assistant # None /\ mgr[m].thread # None
    /\ Len(runs) < MaxRuns
    /\ runs' = Append(runs, "queued")
    /\ mgr' = [mgr EXCEPT ![m].run = Len(runs) + 1]
    /\ UNCHANGED <<fmtVars, creates, storeVars, threadMsgs, waitVars>>

\* get_messages: the messages of the thread whose role is "assistant", or
\* None (no return statement is reached) while self.run is None.
get_messages(m) ==
    /\ mgr[m].constructed /\ Idle(m)
    /\ lastCall' = IF mgr[m].run # 0
                   THEN Call(m, "get_messages", "list",
                             SelectSeq(threadMsgs, LAMBDA msg : msg.role = "assistant"))
                   ELSE Call(m, "get_messages", "None", <<>>)
    /\ UNCHANGED <<fmtVars, creates, disk, mgr, uploaded, vsFiles, remoteRunVars,
                   waitVars>>

(***************************************************************************)
(* Creating the remote resources.                                          *)
(***************************************************************************)
CreatedAssistant == "asst_created"
CreatedThread == "thread_created"
CreatedVS == "vs_created"

\* A create that asks for nothing.
Always(m) == TRUE

\* if not self.assistant
NoAssistant(m) == mgr[m].assistant = None

\* if not self.thread
NoThread(m) == mgr[m].thread = None

\* if not self.vector_store_id
NoVectorStoreId(m) == mgr[m].vector_store_id = ""

\* create_assistant: create the assistant unless the manager has one.
create_assistant(m) ==
    /\ mgr[m].constructed /\ Idle(m)
    /\ IF NoAssistant(m)
       THEN /\ creates' = [creates EXCEPT ![m]["assistant"] = @ + 1]
            /\ mgr' = [mgr EXCEPT ![m].assistant = CreatedAssistant,
                                  ![m].assistant_id = CreatedAssistant]
       ELSE UNCHANGED <<creates, mgr>>
    /\ lastCall' = Call(m, "create_assistant", "None", <<>>)
    /\ UNCHANGED <<fmtVars, disk, uploaded, vsFiles, remoteRunVars, waitVars>>

\* create_thread: create the thread unless the manager has one; return
\* self.thread.
create_thread(m) ==
    /\ mgr[m].constructed /\ Idle(m)
    /\ IF NoThread(m)
       THEN /\ creates' = [creates EXCEPT ![m]["thread"] = @ + 1]
            /\ mgr' = [mgr EXCEPT ![m].thread = CreatedThread,
                                  ![m].thread_id = CreatedThread]
       ELSE UNCHANGED <<creates, mgr>>
    /\ lastCall' = Call(m, "create_thread", "thread", <<>>)
    /\ UNCHANGED <<fmtVars, disk, uploaded, vsFiles, remoteRunVars, waitVars>>

\* create_vector_store: create the vector store unless the manager has the
\* id of one; only the id is kept.
create_vector_store(m) ==
    /\ mgr[m].constructed /\ Idle(m)
    /\ IF NoVectorStoreId(m)
       THEN /\ creates' = [creates EXCEPT ![m]["vector_store"] = @ + 1]
            /\ mgr' = [mgr EXCEPT ![m].vector_store_id = CreatedVS]
       ELSE UNCHANGED <<creates, mgr>>
    /\ lastCall' = Call(m, "create_vector_store", "None", <<>>)
    /\ UNCHANGED <<fmtVars, disk, uploaded, vsFiles, remoteRunVars, waitVars>>

\* The lifecycle, the poller and format_message are checked on one manager:
\* the managers do not share a run, and threadMsgs is the thread it holds.
Pollers == {"m1"}

\* The replies and the final statuses of the runs of the lifecycle.
LifeReplies == {Message("assistant", <<"h", "i">>, <<>>)}
LifeStatuses == {"completed", "failed"}

\* The lifecycle of a manager of a class configured with any ids.
InitLife ==
    /\ InitRest
    /\ disk = DocFile(EmptyDoc)
    /\ \E c \in ClassAttributes : mgr = [m \in Managers |-> ManagerOfClass(c)]
    /\ message = [m \in Managers |-> NoMessage]

NextLife ==
    \/ \E m \in Pollers : Construct(m)
    \/ \E m \in Pollers : create_assistant(m)
    \/ \E m \in Pollers : create_thread(m)
    \/ \E m \in Pollers : create_vector_store(m)
    \/ \E m \in Pollers : add_message_to_thread(m)
    \/ \E m \in Pollers, s \in LifeStatuses, reply \in LifeReplies :
          run_assistant(m, s, reply)
    \/ \E m \in Pollers : get_messages(m)

SpecLife == InitLife /\ [][NextLife]_vars

(***************************************************************************)
(* wait_for_run_completion.  log[m] keeps the last MaxLog effects of the   *)
(* current wait: the remote calls, the sleeps (with their duration) and    *)
(* the error logged by the except branch.                                  *)
(***************************************************************************)
DefaultSleepInterval == 5
SleepIntervals == {DefaultSleepInterval, 1}

Ev(kind, d) == [ev |-> kind, d |-> d]

PushLog(l, e) == IF Len(l) < MaxLog THEN Append(l, e) ELSE Append(Tail(l), e)

RECURSIVE PushAll(_, _)
PushAll(l, es) == IF es = <<>> THEN l ELSE PushAll(PushLog(l, Head(es)), Tail(es))

\* An except branch that falls through to the sleep and tries again.
ExceptRetries == "sleep"

\* Where the except branch of the loop leaves the wait: break.
ExceptNextPc == "returned"

\* A sleep that backs off: the interval grows with the effects so far.
BackoffDuration(m) == sleep_interval[m] + Len(log[m])

\* The argument of time.sleep at the end of an iteration.
SleepDuration(m) == sleep_interval[m]

\* The value wait_for_run_completion hands to its caller: the method has no
\* return statement.
WaitReturnValue(m, resp) == PyNone

\* The call: wait_for_run_completion(sleep_interval)
wait_for_run_completion(m, si) ==
    /\ mgr[m].constructed /\ Idle(m)
    /\ pc' = [pc EXCEPT ![m] = "loop"]
    /\ sleep_interval' = [sleep_interval EXCEPT ![m] = si]
    /\ log' = [log EXCEPT ![m] = <<>>]
    /\ raised' = [raised EXCEPT ![m] = ""]
    /\ response' = [response EXCEPT ![m] = PyNone]
    /\ waitRet' = [waitRet EXCEPT ![m] = PyNone]
    /\ UNCHANGED <<fmtVars, creates, mgr, storeVars, remoteRunVars>>

\* The except branch: log the error, break.
ExceptBranch(m, calls, exc) ==
    /\ log' = [log EXCEPT ![m] = PushAll(log[m], calls \o <<Ev("error", 0)>>)]
    /\ raised' = [raised EXCEPT ![m] = exc]
    /\ pc' = [pc EXCEPT ![m] = ExceptNextPc]
    /\ waitRet' = [waitRet EXCEPT ![m] =
                      IF ExceptNextPc = "returned" THEN WaitReturnValue(m, response[m])
                      ELSE waitRet[m]]
    /\ UNCHANGED <<fmtVars, creates, mgr, storeVars, remoteRunVars, sleep_interval, response>>

\* An iteration while self.run is None: nothing is polled.
LoopNoRun(m) ==
    /\ pc[m] = "loop"
    /\ mgr[m].run = 0
    /\ pc' = [pc EXCEPT ![m] = "sleep"]
    /\ UNCHANGED <<fmtVars, creates, mgr, storeVars, remoteRunVars, sleep_interval, log, raised,
                   response, waitRet>>

\* An iteration in which runs.retrieve raises.
PollRetrieveRaises(m) ==
    /\ pc[m] = "loop"
    /\ mgr[m].run # 0
    /\ ExceptBranch(m, <<Ev("retrieve", 0)>>, "APIError")

\* An iteration that finds the run not completed.
PollNotCompleted(m) ==
    /\ pc[m] = "loop"
    /\ mgr[m].run # 0
    /\ ~completed_at(runs[mgr[m].run])
    /\ log' = [log EXCEPT ![m] = PushLog(log[m], Ev("retrieve", 0))]
    /\ pc' = [pc EXCEPT ![m] = "sleep"]
    /\ UNCHANGED <<fmtVars, creates, mgr, storeVars, remoteRunVars, sleep_interval, raised,
                   response, waitRet>>

FilesRetrieves(n) == [i \in 1..n |-> Ev("files_retrieve", 0)]

\* An iteration that finds the run completed: list the messages, format the
\* first one, break.
PollCompleted(m) ==
    /\ pc[m] = "loop"
    /\ mgr[m].run # 0
    /\ completed_at(runs[mgr[m].run])
    /\ threadMsgs # <<>>
    /\ LET last_message == threadMsgs[1] IN
        /\ log' = [log EXCEPT ![m] =
                      PushAll(log[m], <<Ev("retrieve", 0), Ev("list", 0)>>
                                      \o FilesRetrieves(CitationCount(last_message)))]
        /\ response' = [response EXCEPT ![m] = PyStr(format_message(last_message))]
        /\ waitRet' = [waitRet EXCEPT ![m] =
                          WaitReturnValue(m, PyStr(format_message(last_message)))]
    /\ pc' = [pc EXCEPT ![m] = "returned"]
    /\ UNCHANGED <<fmtVars, creates, mgr, storeVars, remoteRunVars, sleep_interval, raised>>

\* An iteration that finds the run completed and in which messages.list
\* raises.
PollListRaises(m) ==
    /\ pc[m] = "loop"
    /\ mgr[m].run # 0
    /\ completed_at(runs[mgr[m].run])
    /\ ExceptBranch(m, <<Ev("retrieve", 0), Ev("list", 0)>>, "APIError")

\* An iteration that finds the run completed and the message list empty:
\* messages.data[0] raises IndexError.
PollIndexRaises(m) ==
    /\ pc[m] = "loop"
    /\ mgr[m].run # 0
    /\ completed_at(runs[mgr[m].run])
    /\ threadMsgs = <<>>
    /\ ExceptBranch(m, <<Ev("retrieve", 0), Ev("list", 0)>>, "IndexError")

\* An iteration that finds the run completed and in which the k-th
\* files.retrieve of format_message raises.
PollFormatRaises(m, k) ==
    /\ pc[m] = "loop"
    /\ mgr[m].run # 0
    /\ completed_at(runs[mgr[m].run])
    /\ threadMsgs # <<>>
    /\ k \in 1..CitationCount(threadMsgs[1])
    /\ ExceptBranch(m, <<Ev("retrieve", 0), Ev("list", 0)>> \o FilesRetrieves(k), "APIError")

\* time.sleep(sleep_interval), then the next iteration.
Sleep(m) ==
    /\ pc[m] = "sleep"
    /\ log' = [log EXCEPT ![m] = PushLog(log[m], Ev("sleep", SleepDuration(m)))]
    /\ pc' = [pc EXCEPT ![m] = "loop"]
    /\ UNCHANGED <<fmtVars, creates, mgr, storeVars, remoteRunVars, sleep_interval, raised,
                   response, waitRet>>

\* The steps of the wait that the manager's own thread takes.
WaitStep(m) ==
    \/ LoopNoRun(m)
    \/ PollRetrieveRaises(m)
    \/ PollNotCompleted(m)
    \/ PollCompleted(m)
    \/ PollListRaises(m)
    \/ PollIndexRaises(m)
    \/ \E k \in 1..2 : PollFormatRaises(m, k)
    \/ Sleep(m)

InitPoll == Init /\ disk = DocFile(EmptyDoc)

NextPoll ==
    \/ \E m \in Pollers : Construct(m)
    \/ \E m \in Pollers : add_message_to_thread(m)
    \/ \E m \in Pollers, s \in Terminal, reply \in Replies : run_assistant(m, s, reply)
    \/ \E m \in Pollers : main_run_assistant(m)
    \/ \E m \in Pollers, si \in SleepIntervals : wait_for_run_completion(m, si)
    \/ \E m \in Pollers : LoopNoRun(m)
    \/ \E m \in Pollers : PollRetrieveRaises(m)
    \/ \E m \in Pollers : PollNotCompleted(m)
    \/ \E m \in Pollers : PollCompleted(m)
    \/ \E m \in Pollers : PollListRaises(m)
    \/ \E m \in Pollers : PollIndexRaises(m)
    \/ \E m \in Pollers, k \in 1..2 : PollFormatRaises(m, k)
    \/ \E m \in Pollers : Sleep(m)
    \/ \E r \in DOMAIN runs : RemoteRunStarts(r)
    \/ \E r \in DOMAIN runs, reply \in Replies : RemoteRunCompletes(r, reply)
    \/ \E r \in DOMAIN runs, s \in Failure : RemoteRunFails(r, s)
    \/ RemoteThreadEmptied

SpecPoll == InitPoll /\ [][NextPoll]_vars

\* The manager's thread keeps running: a sleep returns, a remote call returns
\* or raises.
FairSpecPoll == SpecPoll /\ \A m \in Pollers : WF_vars(WaitStep(m))

(***************************************************************************)
(* format_message on its own: a caller holds a message object and passes   *)
(* it to format_message.                                                   *)
(***************************************************************************)
TextChars == {"A", "B", "1"}

Texts == UNION {[1..n -> TextChars] : n \in 0..MaxText}

\* The texts of the annotations: substrings the message may hold; "1" also
\* occurs in a marker.
AnnotationTexts == {<<"A">>, <<"B">>, <<"A", "B">>, <<"1">>}

Annotations == {Annotation(t, c) : t \in AnnotationTexts, c \in BOOLEAN}

FormatInputs ==
    {Message("assistant", v, a) :
        v \in Texts,
        a \in UNION {[1..n -> Annotations] : n \in 0..MaxAnnotations}}

\* message_content.value = ...: the text of the message object is assigned.
AssignValue(msg, text) == [msg EXCEPT !.value = text]

\* format_message(message[m]) returns.  The calls of the model start from
\* a text of at most MaxText characters.
format_message_returns(m) ==
    /\ mgr[m].constructed
    /\ Len(message[m].value) <= MaxText
    /\ message' = [message EXCEPT
                      ![m] = AssignValue(message[m], format_message(message[m]))]
    /\ formatted' = [formatted EXCEPT ![m] = PyStr(format_message(message[m]))]
    /\ UNCHANGED <<creates, mgr, storeVars, remoteRunVars, waitVars>>

\* The position of the k-th annotation that has a file citation.
NthCiting(annotations, k) ==
    CHOOSE i \in 1..Len(annotations) :
        /\ annotations[i].file_citation
        /\ Cardinality({j \in 1..i : annotations[j].file_citation}) = k

\* format_message(message[m]) in which the k-th files.retrieve raises: the
\* replacements up to that annotation are made, the exception leaves the
\* method.
format_message_raises(m, k) ==
    /\ mgr[m].constructed
    /\ Len(message[m].value) <= MaxText
    /\ k \in 1..CitationCount(message[m])
    /\ LET n == NthCiting(message[m].annotations, k)
           done == FormatFrom(message[m].value,
                              SubSeq(message[m].annotations, 1, n), 0)
       IN message' = [message EXCEPT ![m] = AssignValue(message[m], done)]
    /\ formatted' = [formatted EXCEPT ![m] = [kind |-> "raised", value |-> <<>>]]
    /\ UNCHANGED <<creates, mgr, storeVars, remoteRunVars, waitVars>>

InitFormat ==
    /\ InitRest
    /\ disk = DocFile(EmptyDoc)
    /\ mgr = [m \in Managers |-> NoManager]
    /\ \E msg \in FormatInputs :
          message = [m \in Managers |-> IF m \in Pollers THEN msg ELSE NoMessage]

NextFormat ==
    \/ \E m \in Pollers : Construct(m)
    \/ \E m \in Pollers : format_message_returns(m)
    \/ \E m \in Pollers, k \in 1..MaxAnnotations : format_message_raises(m, k)

SpecFormat == InitFormat /\ [][NextFormat]_vars

(***************************************************************************)
(* Properties.                                                             *)
(***************************************************************************)
Started(m) == mgr[m].run # 0
Waiting(m) == pc[m] \in {"loop", "sleep"}

\* C1: a wait on a manager whose run has been started returns once the run
\* has reached a terminal state, be it completed or a failure state.
C1_WaitReturnsOnTerminalRun ==
    \A m \in Pollers :
        (Waiting(m) /\ Started(m) /\ runs[mgr[m].run] \in Terminal)
            ~> (pc[m] = "returned")

\* C2: a wait that ended on a completed run (no exception caught) hands the
\* formatted text of the first message to its caller.
C2_WaitProducesFormattedText ==
    \A m \in Pollers :
        (pc[m] = "returned" /\ raised[m] = "")
            => (response[m].kind = "str" /\ waitRet[m] = response[m])

LastEv(l) == l[Len(l)]
RemoteCallEvs == {"retrieve", "list", "files_retrieve"}

\* C3: once the except branch has run, the wait has returned; the error was
\* logged once, right after the remote call that raised, and it is the last
\* effect of the wait: no sleep and no remote call follows it.
C3_ErrorLoggedOnceNoRetry ==
    \A m \in Pollers :
        raised[m] # "" =>
            /\ pc[m] = "returned"
            /\ Len(log[m]) >= 2
            /\ LastEv(log[m]).ev = "error"
            /\ log[m][Len(log[m]) - 1].ev \in RemoteCallEvs
            /\ Cardinality({i \in DOMAIN log[m] : log[m][i].ev = "error"}) = 1

\* C3 witness: a wait that had already polled and slept caught an exception.
C3_Witness ==
    \E m \in Pollers :
        /\ raised[m] = "IndexError"
        /\ \E i \in DOMAIN log[m] : log[m][i].ev = "sleep"

IsPoll(e) == e.ev = "retrieve"
IsSleep(e) == e.ev = "sleep"

\* C4: between two consecutive polls there is exactly one sleep, every sleep
\* lasts the sleep_interval of the call, and no sleep follows the last poll
\* of a wait that has returned.
C4_FixedIntervalBetweenPolls ==
    \A m \in Pollers :
        LET l == log[m] IN
        /\ \A i, j \in DOMAIN l :
             (i < j /\ IsPoll(l[i]) /\ IsPoll(l[j])
                    /\ \A k \in (i + 1)..(j - 1) : ~IsPoll(l[k]))
                => Cardinality({k \in (i + 1)..(j - 1) : IsSleep(l[k])}) = 1
        /\ \A i \in DOMAIN l : IsSleep(l[i]) => l[i].d = sleep_interval[m]
        /\ pc[m] = "returned" =>
             \A i \in DOMAIN l :
                IsSleep(l[i]) => \E j \in DOMAIN l : j > i /\ IsPoll(l[j])

\* C4 witness: a wait with the default interval ended on a completed run
\* after polls separated by a sleep.
C4_Witness ==
    \E m \in Pollers :
        /\ pc[m] = "returned" /\ raised[m] = ""
        /\ sleep_interval[m] = DefaultSleepInterval
        /\ \E i \in DOMAIN log[m] :
             /\ i + 2 <= Len(log[m])
             /\ IsPoll(log[m][i])
             /\ log[m][i + 1] = Ev("sleep", DefaultSleepInterval)
             /\ IsPoll(log[m][i + 2])

OnlyManager(m) == \A o \in Managers \ {m} : ~mgr[o].constructed

\* C5: on one manager, after an upload or a clear, the persisted document
\* equals the manager's in-memory file_metadata.
C5_PersistedEqualsMemory ==
    \A m \in Managers :
        (OnlyManager(m) /\ lastCall.m = m /\ lastCall.op \in {"upload", "clear"}
            /\ disk.kind = "doc")
            => disk.doc = mgr[m].file_metadata

\* C6: every entry an upload adds pairs a path of file_paths with the id the
\* remote service gave to the file uploaded from that path in this upload
\* (stated for the uploads in which every file of the batch was uploaded).
C6_EntryHasOwnFileId ==
    [][(/\ lastCall'.op = "upload" /\ lastCall'.kind = "None"
        /\ Len(uploaded') = Len(uploaded) + Len(lastCall'.paths))
          => LET m == lastCall'.m
                 v == mgr[m].vector_store_id
                 old == mgr[m].file_metadata.at[v]
                 new == mgr'[m].file_metadata.at[v]
             IN \A i \in (Len(old) + 1)..Len(new) :
                    /\ new[i].file_id \in (Len(uploaded) + 1)..Len(uploaded')
                    /\ uploaded'[new[i].file_id] = new[i].file_path
      ]_vars

\* C7: load_file_metadata never fails, so no construction ends with an
\* exception.
C7_LoadNeverFails ==
    lastCall.op = "init" => lastCall.kind # "raised"

IsPrefix(s, t) == Len(s) <= Len(t) /\ SubSeq(t, 1, Len(s)) = s

\* C8: an upload appends to the caller's store: the list of the current
\* vector store id keeps its entries as a prefix, the entries after them
\* carry paths of file_paths from its first on, in order, and the list of no
\* other collection id changes; no other manager's store changes.
C8_UploadOnlyAppends ==
    [][lastCall'.op = "upload" =>
          LET m == lastCall'.m
              old == mgr[m].file_metadata
              new == mgr'[m].file_metadata
              v == mgr[m].vector_store_id
              added == SubSeq(new.at[v], Len(old.at[v]) + 1, Len(new.at[v]))
          IN /\ IsPrefix(old.at[v], new.at[v])
             /\ IsPrefix([i \in DOMAIN added |-> added[i].file_path], lastCall'.paths)
             /\ new.keys = old.keys \cup (IF added = <<>> THEN {} ELSE {v})
             /\ \A k \in VsIds \ {v} : new.at[k] = old.at[k]
             /\ \A o \in Managers \ {m} : mgr'[o] = mgr[o]
      ]_vars

\* C8 witness: a manager whose document holds another collection id has
\* uploaded a second time.
C8_Witness ==
    \E m \in Managers :
        /\ lastCall = Call(m, "upload", "None", <<"b.pdf">>)
        /\ Len(mgr[m].file_metadata.at[VS_ID]) = 2
        /\ mgr[m].file_metadata.at[OtherVS] # <<>>

\* C9: a write is an overwrite with the writer's own store: whatever the file
\* held that the writer's memory lacks is gone after it.
C9_LaterWriterOverwrites ==
    [][(lastCall'.op = "upload" /\ lastCall'.kind = "None")
          => disk' = DocFile(mgr'[lastCall'.m].file_metadata)
      ]_vars

HasEntry(d, id) ==
    \E k \in d.keys : \E i \in DOMAIN d.at[k] : d.at[k][i].file_id = id

\* C9 witness: two managers have uploaded; a file the vector store holds,
\* which the earlier writer recorded, has no entry in the persisted document.
C9_Witness ==
    \E m1, m2 \in Managers :
        /\ m1 # m2
        /\ lastCall.m = m2 /\ lastCall.op = "upload"
        /\ disk = DocFile(mgr[m2].file_metadata)
        /\ \E id \in vsFiles :
             /\ HasEntry(mgr[m1].file_metadata, id)
             /\ ~HasEntry(disk.doc, id)
             /\ \A k \in disk.doc.keys : \A i \in DOMAIN disk.doc.at[k] :
                    disk.doc.at[k][i].file_path # uploaded[id]

\* The entries clear_vector_store reads in this step.
ClearEntries ==
    IF disk.kind = "doc"
    THEN DocGet(disk.doc, mgr[lastCall'.m].vector_store_id)
    ELSE <<>>

\* The sets of positions that may be those of the entries whose remote
\* deletion succeeded in this step: their files are the ones that left the
\* vector store, each deleted once.
DeletedPositions(es) ==
    {S \in SUBSET DOMAIN es :
        /\ {es[i].file_id : i \in S} = vsFiles \ vsFiles'
        /\ \A i, j \in S : i # j => es[i].file_id # es[j].file_id}

\* C10: a clear that returns a list returns the paths of the entries whose
\* remote deletion succeeded, in the order of the persisted entries, and
\* leaves the empty mapping persisted; a clear that returns None found no
\* entries or cleared nothing.
C10_ClearReturnsDeletedPaths ==
    [][lastCall'.op = "clear" =>
          LET es == ClearEntries IN
          /\ lastCall'.kind \in {"list", "None"}
          /\ lastCall'.kind = "list" =>
                /\ \E S \in DeletedPositions(es) : lastCall'.paths = [i \in DOMAIN Pick(es, 1, S) |-> Pick(es, 1, S)[i].file_path]
                /\ disk' = DocFile(EmptyDoc)
          /\ lastCall'.kind = "None" =>
                \/ es = <<>>
                \/ (disk' = disk /\ vsFiles' = vsFiles)
      ]_vars

\* C10 witness: a clear over two entries returned one path: one deletion
\* failed, the other succeeded, and the document is empty.
C10_Witness ==
    /\ lastCall.op = "clear" /\ lastCall.kind = "list"
    /\ Len(lastCall.paths) = 1
    /\ vsFiles # {}
    /\ disk = DocFile(EmptyDoc)

\* C11: a failed remote deletion is isolated whatever the position of the
\* failing entry: a clear that read a non-empty list of entries returns a
\* list holding the paths of the entries whose deletion succeeded (the failed
\* paths are absent, the remaining files are deleted) and leaves the empty
\* mapping persisted.
C11_FailedDeletionIsolated ==
    [][(lastCall'.op = "clear" /\ ClearEntries # <<>>) =>
          /\ lastCall'.kind = "list"
          /\ \E S \in DeletedPositions(ClearEntries) :
                lastCall'.paths = [i \in DOMAIN Pick(ClearEntries, 1, S) |->
                                     Pick(ClearEntries, 1, S)[i].file_path]
          /\ disk' = DocFile(EmptyDoc)
      ]_vars

\* The leftmost non-overlapping occurrences of old (not empty) in s: the
\* start positions such that every match starts at one of them or inside an
\* earlier one.
Occurrences(s, old) ==
    LET Matches == {q \in 1..Len(s) : StartsWith(s, q, old)} IN
    CHOOSE P \in SUBSET Matches :
        /\ \A p, q \in P : p < q => p + Len(old) <= q
        /\ \A q \in Matches :
              q \in P \/ \E p \in P : p < q /\ q < p + Len(old)

\* r is s with every occurrence of old replaced by new and every other
\* character kept, in order.
IsReplaced(s, old, new, r) ==
    LET P == Occurrences(s, old)
        d == Len(new) - Len(old)
        shift(i) == Cardinality({p \in P : p < i}) * d
        covered(i) == \E p \in P : p <= i /\ i < p + Len(old)
    IN /\ Len(r) = Len(s) + Cardinality(P) * d
       /\ \A i \in 1..Len(s) : ~covered(i) => r[i + shift(i)] = s[i]
       /\ \A p \in P : \A k \in 1..Len(new) : r[p + shift(p) + k - 1] = new[k]

\* The footnote marker of the n-th annotation, n counted from 1.
FootnoteMarker(n) == <<" ", "[", DigitOf[n], "]">>

\* The text after the first i annotations of msg were processed.
AfterAnnotations(msg, i) ==
    FormatFrom(msg.value, SubSeq(msg.annotations, 1, i), 0)

\* C12: a format_message that returns has processed the annotations in
\* order, each step replacing every occurrence of the text of the annotation
\* at 0-based position i by " [i+1]"; it returns the text after the last
\* replacement with nothing appended, and the message object passed in holds
\* that text afterwards (its annotations and role are as before).
C12_FormatReplacesInOrder ==
    [][\A m \in Managers :
          (formatted'[m].kind = "str"
           /\ (formatted'[m] # formatted[m] \/ message'[m] # message[m])) =>
             LET msg == message[m]
                 n == Len(msg.annotations)
             IN /\ AfterAnnotations(msg, 0) = msg.value
                /\ \A i \in 1..n :
                      IsReplaced(AfterAnnotations(msg, i - 1),
                                 msg.annotations[i].text,
                                 FootnoteMarker(i),
                                 AfterAnnotations(msg, i))
                /\ formatted'[m] = PyStr(AfterAnnotations(msg, n))
                /\ message'[m] = [msg EXCEPT !.value = formatted'[m].value]
      ]_vars

\* C12 witness: a message "AB" with the annotations "A" and "B" was
\* formatted to " [1] [2]" and holds that text.
C12_Witness ==
    \E m \in Managers :
        /\ formatted[m] = PyStr(<<" ", "[", "1", "]", " ", "[", "2", "]">>)
        /\ message[m].value = formatted[m].value
        /\ Len(message[m].annotations) = 2
        /\ message[m].annotations[1].text = <<"A">>
        /\ message[m].annotations[2].text = <<"B">>

\* C13: a manager has a run only if it has an assistant and a thread: a run
\* is created only by a manager that has both, a user message reaches the
\* thread only from a manager that has a thread, and get_messages returns
\* None to a manager that has no run.
C13_RunNeedsAssistantAndThread ==
    [][/\ \A m \in Managers :
             /\ mgr'[m].run # 0 =>
                   mgr'[m].assistant # None /\ mgr'[m].thread # None
             /\ mgr'[m].run # mgr[m].run =>
                   mgr[m].assistant # None /\ mgr[m].thread # None
             /\ (lastCall'.op = "get_messages" /\ lastCall'.m = m
                 /\ mgr[m].run = 0) => lastCall'.kind = "None"
       /\ Len(runs') > Len(runs) =>
             \E m \in Managers :
                 /\ mgr'[m].run = Len(runs')
                 /\ mgr[m].assistant # None /\ mgr[m].thread # None
       /\ threadMsgs' # threadMsgs =>
             \E m \in Managers : mgr[m].constructed /\ mgr[m].thread # None
      ]_vars

\* C13 witness: a manager constructed with an assistant and without a thread
\* has no run, nothing reached the remote service, and its get_messages
\* returned None.
C13_Witness ==
    \E m \in Managers :
        /\ mgr[m].constructed
        /\ mgr[m].assistant # None /\ mgr[m].thread = None
        /\ mgr[m].run = 0
        /\ runs = <<>> /\ threadMsgs = <<>>
        /\ lastCall = Call(m, "get_messages", "None", <<>>)

\* The resource of kind k exists for manager m: retrieved at construction
\* or created by an earlier call.
Exists(m, k) ==
    \/ creates[m][k] > 0
    \/ k = "assistant" /\ mgr[m].assistant # None
    \/ k = "thread" /\ mgr[m].thread # None
    \/ k = "vector_store" /\ mgr[m].vector_store # None

\* The resources and the ids manager m holds.
Held(m) == <<mgr[m].assistant, mgr[m].thread, mgr[m].vector_store,
             mgr[m].assistant_id, mgr[m].thread_id, mgr[m].vector_store_id>>

====
